---- MODULE Spec2Model ----
(***************************************************************************)
(* PBKDF2-HMAC-SHA1 with precomputed HMAC states (package fastpbkdf2).     *)
(*                                                                         *)
(* A uint32 is the pair <<hi, lo>> of its 16-bit halves, so that every     *)
(* intermediate value stays inside TLC's integers and every addition is    *)
(* taken modulo 2^32.  A byte slice is a sequence of 0..255, 1-indexed:    *)
(* Go's b[i] is b[i+1] here.  A block's h [16]uint32 is a sequence of 16   *)
(* words: Go's h[i] is h[i+1] here.                                        *)
(***************************************************************************)
EXTENDS Integers, Sequences, FiniteSets, TLC

(* ------------------------------ uint32 -------------------------------- *)

Half == 2 ^ 16

Pow2(k) == 2 ^ k

RECURSIVE AndBits(_, _, _)
AndBits(a, b, k) ==
  IF k = 0 THEN 0
  ELSE (a % 2) * (b % 2) + 2 * AndBits(a \div 2, b \div 2, k - 1)

\* a & b on bytes, tabulated once.
AndByte == [a \in 0..255 |-> [b \in 0..255 |-> AndBits(a, b, 8)]]

And16(a, b) ==
  AndByte[a \div 256][b \div 256] * 256 + AndByte[a % 256][b % 256]

\* x & y
And32(x, y) == <<And16(x[1], y[1]), And16(x[2], y[2])>>

\* x | y
Or32(x, y) ==
  <<x[1] + y[1] - And16(x[1], y[1]), x[2] + y[2] - And16(x[2], y[2])>>

\* x ^ y
Xor32(x, y) ==
  <<x[1] + y[1] - 2 * And16(x[1], y[1]), x[2] + y[2] - 2 * And16(x[2], y[2])>>

\* ^x
Not32(x) == <<Half - 1 - x[1], Half - 1 - x[2]>>

\* x + y, modulo 2^32
Add32(x, y) ==
  <<(x[1] + y[1] + ((x[2] + y[2]) \div Half)) % Half, (x[2] + y[2]) % Half>>

\* x << k, for 0 <= k < 32
Shl32(x, k) ==
  IF k < 16
  THEN <<((x[1] * Pow2(k)) % Half) + (x[2] \div Pow2(16 - k)),
         (x[2] * Pow2(k)) % Half>>
  ELSE <<(x[2] * Pow2(k - 16)) % Half, 0>>

\* x >> k, for 0 <= k < 32
Shr32(x, k) ==
  IF k < 16
  THEN <<x[1] \div Pow2(k),
         (x[2] \div Pow2(k)) + ((x[1] % Pow2(k)) * Pow2(16 - k))>>
  ELSE <<0, x[1] \div Pow2(k - 16)>>

\* x<<k | x>>(32-k)
Rotl(x, k) == Or32(Shl32(x, k), Shr32(x, 32 - k))

(* ------------------------- bytes and blocks --------------------------- *)

Size == 20

BlockSize == 64

chunk == BlockSize

\* uint32(x[0])<<24 | uint32(x[1])<<16 | uint32(x[2])<<8 | uint32(x[3]),
\* x being the slice b[off:]
readUint32(b, off) ==
  <<b[off + 1] * 256 + b[off + 2], b[off + 3] * 256 + b[off + 4]>>

\* the four bytes putUint32 stores for s
putUint32(s) ==
  <<s[1] \div 256, s[1] % 256, s[2] \div 256, s[2] % 256>>

\* The sequence f as a tuple, every element evaluated.
Tuple(f) == f \o <<>>

\* b with the bytes bs stored from offset off on
Store(b, off, bs) ==
  SubSeq(b, 1, off) \o bs \o SubSeq(b, off + Len(bs) + 1, Len(b))

Zeros(len) == Tuple([i \in 1..len |-> 0])

\* Go's copy(dst, src): min(len(dst), len(src)) bytes
Copy(dst, src) ==
  IF Len(src) >= Len(dst) THEN SubSeq(src, 1, Len(dst))
  ELSE src \o SubSeq(dst, Len(src) + 1, Len(dst))

ZeroBlock == Tuple([i \in 1..16 |-> <<0, 0>>])

init0 == <<26437, 8961>>     \* 0x67452301
init1 == <<61389, 43913>>    \* 0xEFCDAB89
init2 == <<39098, 56574>>    \* 0x98BADCFE
init3 == <<4146, 21622>>     \* 0x10325476
init4 == <<50130, 57840>>    \* 0xC3D2E1F0

_K0 == <<23170, 31129>>      \* 0x5A827999
_K1 == <<28377, 60321>>      \* 0x6ED9EBA1
_K2 == <<36635, 48348>>      \* 0x8F1BBCDC
_K3 == <<51810, 49622>>      \* 0xCA62C1D6

\* sha1_init: words 0..4 of b set to the initial state, the rest kept
sha1_init(b) == <<init0, init1, init2, init3, init4>> \o SubSeq(b, 6, 16)

\* b[lo], ..., b[hi-1] set to 0 (lines 117-119)
ZeroFrom(b, lo, hi) ==
  IF lo >= hi THEN b
  ELSE SubSeq(b, 1, lo) \o Zeros(hi - lo) \o SubSeq(b, hi + 1, Len(b))

\* sha1_pad(b, len): b after the call.  len is a uint below 2^28 here, so
\* uint32(len>>32) is 0 and uint32(len) is len*8.  The two putUint32 come
\* last and overwrite what b[56..63] held.
sha1_pad(b, len) ==
  LET nx   == len % chunk
      bits == len * 8
  IN  Store(Store(ZeroFrom(Store(b, nx, <<128>>), nx + 1, chunk - 8),
                  56, putUint32(<<0, 0>>)),
            60, putUint32(<<bits \div Half, bits % Half>>))

\* sha1_input: all 16 words read big-endian from b
sha1_input(b) == Tuple([i \in 1..16 |-> readUint32(b, (i - 1) * 4)])

\* sha1_output(b, bl): b with the 20 bytes of words 0..4 of bl stored
RECURSIVE sha1_output_from(_, _, _)
sha1_output_from(b, bl, i) ==
  IF i >= 5 THEN b
  ELSE sha1_output_from(Store(b, i * 4, putUint32(bl[i + 1])), bl, i + 1)

sha1_output(b, bl) == sha1_output_from(b, bl, 0)

(* ------------------------ sha1_block_generic -------------------------- *)

\* Sched with the slot w[i&0xf] overwritten before it is read: the word
\* W_(i-16) it held is lost from the sum.
SchedOverwritten(i, w) ==
  [w EXCEPT ![(i % 16) + 1] =
     Rotl(Xor32(Xor32(w[((i - 3) % 16) + 1], w[((i - 8) % 16) + 1]),
                w[((i - 14) % 16) + 1]), 1)]

\* tmp := w[(i-3)&0xf] ^ w[(i-8)&0xf] ^ w[(i-14)&0xf] ^ w[(i)&0xf];
\* w[i&0xf] = tmp<<1 | tmp>>(32-1): the 16-word buffer w after it.
\* (i-3)&0xf is (i-3) % 16, i being at least 16.
Sched(i, w) ==
  [w EXCEPT ![(i % 16) + 1] =
     Rotl(Xor32(Xor32(Xor32(w[((i - 3) % 16) + 1], w[((i - 8) % 16) + 1]),
                      w[((i - 14) % 16) + 1]),
                w[(i % 16) + 1]), 1)]

\* f of the loop that index i is in
StepF(i, b, c, d) ==
  IF i < 20 THEN Or32(And32(b, c), And32(Not32(b), d))
  ELSE IF i < 40 THEN Xor32(Xor32(b, c), d)
  ELSE IF i < 60 THEN Or32(And32(Or32(b, c), d), And32(b, c))
  ELSE Xor32(Xor32(b, c), d)

\* the constant of the loop that index i is in
StepK(i) ==
  IF i < 20 THEN _K0 ELSE IF i < 40 THEN _K1 ELSE IF i < 60 THEN _K2 ELSE _K3

\* t := a5 + f + e + w[i&0xf] + K; a, b, c, d, e = t, a, b30, c, d
StepOn(i, a, b, c, d, e, w) ==
  <<Add32(Add32(Add32(Add32(Rotl(a, 5), StepF(i, b, c, d)), e),
                w[(i % 16) + 1]), StepK(i)),
    a, Rotl(b, 30), c, d, w>>

\* One pass of the loop body for index i on <<a, b, c, d, e, w>>: from
\* i = 16 on the schedule update comes first.
Step(i, s) ==
  StepOn(i, s[1], s[2], s[3], s[4], s[5],
         IF i < 16 THEN s[6] ELSE Sched(i, s[6]))

\* The passes for i = lo, ..., hi-1, in order: the first half of them, then
\* (its result evaluated, the test on half) the rest.
RECURSIVE Steps(_, _, _)
Steps(lo, hi, s) ==
  IF hi - lo <= 1 THEN Step(lo, s)
  ELSE LET mid  == (lo + hi) \div 2
           half == Steps(lo, mid, s)
       IN  IF Len(half[6]) = 16 THEN Steps(mid, hi, half) ELSE half

\* h0 += a; ...; h4 += e
Sum5(h, s) ==
  <<Add32(h[1], s[1]), Add32(h[2], s[2]), Add32(h[3], s[3]),
    Add32(h[4], s[4]), Add32(h[5], s[5])>>

\* the 80 passes from the state h on the words w
Passes(h, w) == Steps(0, 80, <<h[1], h[2], h[3], h[4], h[5], w>>)

\* dst.h[0..4] = h0..h4 after the schedule s[6] was left in src
StoreInPlace(m, dst, src, h, s) ==
  [m EXCEPT ![src] = s[6],
            ![dst] = Sum5(h, s) \o SubSeq(IF dst = src THEN s[6] ELSE m[dst], 6, 16)]

\* sha1_block_generic with w a reference to src.h instead of a copy: the
\* message schedule is left in src.
sha1_block_generic_inplace(m, dst, init, src) ==
  StoreInPlace(m, dst, src, m[init], Passes(m[init], m[src]))

\* sha1_block_generic(dst, init, src) on the blocks held in m: the memory
\* after the call.  src.h and init.h[0..4] are read before dst is written,
\* and only words 0..4 of dst are written.
sha1_block_generic(m, dst, init, src) ==
  [m EXCEPT ![dst] =
     Sum5(m[init], Passes(m[init], m[src])) \o SubSeq(m[dst], 6, 16)]

\* sha1_block(dst, init, src): the block step started from a copy of init on
\* the words of src, words 0..4 of the result copied to dst.  The step is
\* the portable sha1_block_generic, which the assembly step computes too.
sha1_block(m, dst, init, src) == sha1_block_generic(m, dst, init, src)

(* ------------------- crypto/sha1 and crypto/hmac ---------------------- *)
(* The standard library's SHA-1 and HMAC, which SHA1 and hmac_init call,   *)
(* as FIPS 180 and FIPS 198-1 define them: any number of blocks, and the   *)
(* 80-word message schedule.                                               *)

\* W_t for t = Len(w), given W_0 .. W_(t-1) in w (w[t+1] is W_t)
NextW(w) ==
  LET t == Len(w)
  IN  Rotl(Xor32(Xor32(Xor32(w[t - 2], w[t - 7]), w[t - 13]), w[t - 15]), 1)

\* w extended to W_0 .. W_(upto-1)
RECURSIVE Schedule(_, _)
Schedule(w, upto) ==
  IF upto - Len(w) <= 1 THEN Append(w, NextW(w))
  ELSE LET half == Schedule(w, (Len(w) + upto) \div 2)
       IN  IF Len(half) > 0 THEN Schedule(half, upto) ELSE half

Ch(x, y, z) == Xor32(And32(x, y), And32(Not32(x), z))

Parity(x, y, z) == Xor32(Xor32(x, y), z)

Maj(x, y, z) == Xor32(Xor32(And32(x, y), And32(x, z)), And32(y, z))

Fips180F(t, x, y, z) ==
  IF t < 20 THEN Ch(x, y, z)
  ELSE IF t < 40 THEN Parity(x, y, z)
  ELSE IF t < 60 THEN Maj(x, y, z)
  ELSE Parity(x, y, z)

Fips180K(t) ==
  IF t < 20 THEN _K0 ELSE IF t < 40 THEN _K1 ELSE IF t < 60 THEN _K2 ELSE _K3

\* <<a, b, c, d, e>> after step t: T = ROTL5(a) + f_t(b, c, d) + e + K_t + W_t
Fips180Round(t, s, W) ==
  <<Add32(Add32(Add32(Add32(Rotl(s[1], 5), Fips180F(t, s[2], s[3], s[4])),
                      s[5]), Fips180K(t)), W[t + 1]),
    s[1], Rotl(s[2], 30), s[3], s[4]>>

\* steps lo .. hi-1
RECURSIVE Fips180Rounds(_, _, _, _)
Fips180Rounds(lo, hi, s, W) ==
  IF hi - lo <= 1 THEN Fips180Round(lo, s, W)
  ELSE LET mid  == (lo + hi) \div 2
           half == Fips180Rounds(lo, mid, s, W)
       IN  IF Len(half) = 5 THEN Fips180Rounds(mid, hi, half, W) ELSE half

\* the hash value after one more 64-byte block
Fips180Block(H, bytes) ==
  Sum5(H, Fips180Rounds(0, 80, H, Schedule(sha1_input(bytes), 80)))

\* data || 0x80 || 0... || 64-bit big-endian bit length, a multiple of 64 bytes
Fips180Pad(data) ==
  LET l    == Len(data)
      tot  == ((l + 8) \div 64 + 1) * 64
      bits == l * 8
  IN  Tuple([i \in 1..tot |->
         IF i <= l THEN data[i]
         ELSE IF i = l + 1 THEN 128
         ELSE IF i <= tot - 4 THEN 0
         ELSE putUint32(<<bits \div Half, bits % Half>>)[i - (tot - 4)]])

\* the hash value after the blocks k, k+1, ... of padded
RECURSIVE Fips180Blocks(_, _, _)
Fips180Blocks(H, padded, k) ==
  IF k * 64 >= Len(padded) THEN H
  ELSE Fips180Blocks(Fips180Block(H, SubSeq(padded, k * 64 + 1, k * 64 + 64)),
                     padded, k + 1)

\* the five words of H as 20 bytes, big-endian
Digest(H) ==
  putUint32(H[1]) \o putUint32(H[2]) \o putUint32(H[3])
    \o putUint32(H[4]) \o putUint32(H[5])

\* sha1.Sum(data): the 20-byte digest
sha1_Sum(data) ==
  Digest(Fips180Blocks(<<init0, init1, init2, init3, init4>>, Fips180Pad(data), 0))

XorByte(a, b) == a + b - 2 * AndByte[a][b]

\* every byte of b xored with c
XorAll(b, c) == Tuple([i \in 1..Len(b) |-> XorByte(b[i], c)])

\* hmac.New(sha1.New, key): the key (hashed first when longer than a block)
\* zero-padded to a block and xored with 0x36 and with 0x5c
prf_Pads(k0) ==
  [ipad |-> XorAll(Copy(Zeros(BlockSize), k0), 54),
   opad |-> XorAll(Copy(Zeros(BlockSize), k0), 92)]

prf_New(key) ==
  prf_Pads(IF Len(key) > BlockSize THEN sha1_Sum(key) ELSE key)

\* prf.Reset(); prf.Write(data); prf.Sum(nil) on the pads h of prf
prf_Reset_Write_Sum(h, data) == sha1_Sum(h.opad \o sha1_Sum(h.ipad \o data))

\* One pass of the fast path: data padded as the second block of a message
\* into one block, compressed from the state h of m; the 20 bytes it gives.
OneBlock(m, h, data) ==
  sha1_output(Zeros(Size),
    sha1_block([m EXCEPT !["U"] =
                  sha1_input(sha1_pad(Copy(Zeros(BlockSize), data),
                                      BlockSize + Len(data)))],
               "U", h, "U")["U"])

OneBlockBoth(m, data) == OneBlock(m, "outer", OneBlock(m, "inner", data))

OneBlockStates(hh) ==
  sha1_block(sha1_block([init  |-> sha1_init(ZeroBlock),
                         inner |-> sha1_input(hh.ipad),
                         outer |-> sha1_input(hh.opad),
                         U     |-> ZeroBlock],
                        "inner", "init", "inner"),
             "outer", "init", "outer")

\* HMAC by the one-block fast path for every message: the message padded
\* into a single block and compressed from the precomputed inner state,
\* the 20-byte result the same way from the outer state.
prf_SumOneBlock(key, data) == OneBlockBoth(OneBlockStates(prf_New(key)), data)

\* the 20 bytes prf.Sum appends for prf = hmac.New(sha1.New, key)
prf_Sum(key, data) == prf_Reset_Write_Sum(prf_New(key), data)

(* ----------------------------- hmac_init ------------------------------ *)

\* lines 176-192 of hmac_init, key1 being the key after lines 170-174
hmac_init_pads(m, inner, outer, key1) ==
  sha1_block(
    sha1_block([m EXCEPT !["init"] = sha1_init(ZeroBlock),
                         ![inner] = sha1_input(XorAll(Copy(Zeros(BlockSize), key1), 54)),
                         ![outer] = sha1_input(XorAll(Copy(Zeros(BlockSize), key1), 92))],
               inner, "init", inner),
    outer, "init", outer)

\* hmac_init hashing every key of at least a block (>= for >).
hmac_init_ge(m, inner, outer, key) ==
  hmac_init_pads(m, inner, outer,
                 IF Len(key) >= BlockSize THEN sha1_Sum(key) ELSE key)

\* hmac_init(inner, outer, key) on the blocks held in m; init is its local.
hmac_init(m, inner, outer, key) ==
  hmac_init_pads(m, inner, outer,
                 IF Len(key) > BlockSize THEN sha1_Sum(key) ELSE key)

(* ------------------------------- inputs ------------------------------- *)

MaxIter == 3

MaxBlocks == 2

\* n bytes, none of them a pattern the padding could hide
Fill(len, seed) == Tuple([i \in 1..len |-> (seed + 7 * i) % 256])

Password8 == <<112, 97, 115, 115, 119, 111, 114, 100>>     \* "password"

PasswordBlock == Fill(BlockSize, 3)          \* exactly one block: used unhashed

PasswordLong == Fill(BlockSize + 1, 5)       \* longer than a block: hashed first

Salt4 == <<115, 97, 108, 116>>                              \* "salt"

SaltFit == Fill(chunk - 9 - 4, 11)           \* len(salt) + 4 = 55

SaltLong == Fill(chunk - 9 - 4 + 1, 13)      \* len(salt) + 4 = 56

Cases ==
  {<<Password8, Salt4>>, <<PasswordBlock, SaltFit>>, <<PasswordLong, SaltLong>>}

Iters == (-1)..MaxIter

KeyLens ==
  {-(2 * Size) - 1, -1, 0, 1, Size, Size + 1, MaxBlocks * Size}

\* sha1_sum takes at most this many bytes
MaxMsg == 55

Msgs ==
  {Fill(len, len) : len \in 0..(MaxMsg + 1)} \cup {Password8, <<97, 98, 99>>}

\* Go's integer division truncates toward zero
GoDiv(a, b) == IF a >= 0 THEN a \div b ELSE -((-a) \div b)

(* ------------------------------- state -------------------------------- *)

VARIABLES
  pc,          \* where the running function stands
  password, salt, iter, keyLen,      \* SHA1's arguments
  numBlocks, blk, n,                 \* SHA1's numBlocks, block and n
  mem,         \* the blocks: inner, outer, tmp, U of SHA1, init of hmac_init,
               \* ctx and in of sha1_sum
  dk, tpad,    \* SHA1's dk and tpad
  ret,         \* what SHA1 returned
  msg, pad, out,                     \* sha1_sum's msg, pad and out
  nInit,       \* history: calls of hmac_init in this call of SHA1
  calls,       \* history: sha1_pad and sha1_block calls of SHA1 since the
               \* current output block began
  Uin,         \* history: the 20 bytes of U at the start of the iteration
  prev         \* history: <<keyLen, ret>> of the call before this one

vars ==
  <<pc, password, salt, iter, keyLen, numBlocks, blk, n, mem, dk, tpad, ret,
    msg, pad, out, nInit, calls, Uin, prev>>

BlockNames == {"inner", "outer", "tmp", "U", "init", "ctx", "in"}

\* Go zero values of every local
Locals ==
  /\ numBlocks = 0
  /\ blk = 0
  /\ n = 0
  /\ mem = [b \in BlockNames |-> ZeroBlock]
  /\ dk = <<>>
  /\ tpad = <<>>
  /\ ret = <<>>
  /\ nInit = 0
  /\ calls = <<>>
  /\ Uin = <<>>

NoSum == msg = <<>> /\ pad = <<>> /\ out = <<>>

Init ==
  /\ pc = "enter"
  /\ \E c \in Cases : password = c[1] /\ salt = c[2]
  /\ iter \in Iters
  /\ keyLen \in KeyLens
  /\ Locals
  /\ NoSum
  /\ prev = <<>>

(* ------------------------------- SHA1 --------------------------------- *)

\* T taken as dk[:Size], the first block whatever the block index.
ToffFirst(d) == 0

\* line 69: where T = dk[len(dk)-Size:] starts in dk
Toff(d) == Len(d) - Size

\* the 20 bytes of T
Tslice(d) == SubSeq(d, Toff(d) + 1, Toff(d) + Size)

\* d after the 20 bytes t are stored through T, which aliases d
WithT(d, t) == Store(d, Toff(d), t)

\* numBlocks rounded down: keyLen / Size.
NumBlocksFloor(k) == GoDiv(k, Size)

\* line 50: (keyLen + Size - 1) / Size
NumBlocks(k) == GoDiv(k + Size - 1, Size)

\* lines 49-59: numBlocks, hmac_init, make
Enter ==
  /\ pc = "enter"
  /\ numBlocks' = NumBlocks(keyLen)
  /\ mem' = hmac_init(mem, "inner", "outer", password)
  /\ nInit' = nInit + 1
  /\ IF numBlocks' * Size < 0
     THEN pc' = "panic" /\ UNCHANGED <<tpad, blk>>   \* make: cap out of range
     ELSE pc' = "block" /\ tpad' = Zeros(BlockSize) /\ blk' = 1
  /\ UNCHANGED <<password, salt, iter, keyLen, n, dk, ret, msg, pad, out,
                 calls, Uin, prev>>

\* lines 64-68: dk = prf.Sum(dk) after Reset, Write(salt), Write(buf[:4])
SumU1(d, key, slt, block) ==
  d \o prf_Sum(key, slt \o putUint32(<<block \div Half, block % Half>>))

\* lines 72-74: tmp.h[i] = readUint32(T[i*4:]) for i < 5
LoadTmp(m, T) ==
  [m EXCEPT !["tmp"] = Tuple([i \in 1..5 |-> readUint32(T, i * 4 - 4)])
                         \o SubSeq(m["tmp"], 6, 16)]

\* U padded as a 20-byte message, the key block already hashed forgotten.
PadTShort(tp, T) == sha1_pad(Copy(tp, T), Size)

\* lines 76-77: copy(tpad, T); sha1_pad(tpad, BlockSize+Size)
PadT(tp, T) == sha1_pad(Copy(tp, T), BlockSize + Size)

\* line 78: sha1_input(&U, tpad)
InputU(m, tp) == [m EXCEPT !["U"] = sha1_input(tp)]

\* BlockFirst with the HMAC states derived again for every output block.
BlockFirstReinit ==
  /\ pc = "block"
  /\ blk <= numBlocks
  /\ dk' = SumU1(dk, password, salt, blk)
  /\ tpad' = PadT(tpad, Tslice(dk'))
  /\ mem' = InputU(LoadTmp(hmac_init(mem, "inner", "outer", password),
                           Tslice(dk')), tpad')
  /\ nInit' = nInit + 1
  /\ n' = 2
  /\ calls' = <<"pad">>
  /\ pc' = "iter"
  /\ UNCHANGED <<password, salt, iter, keyLen, numBlocks, blk, ret, msg, pad,
                 out, Uin, prev>>

\* lines 60-78: U_1 from prf, T, tmp, and U padded for the loop
BlockFirst ==
  /\ pc = "block"
  /\ blk <= numBlocks
  /\ dk' = SumU1(dk, password, salt, blk)
  /\ tpad' = PadT(tpad, Tslice(dk'))
  /\ mem' = InputU(LoadTmp(mem, Tslice(dk')), tpad')
  /\ n' = 2
  /\ calls' = <<"pad">>
  /\ pc' = "iter"
  /\ UNCHANGED <<password, salt, iter, keyLen, numBlocks, blk, ret, msg, pad,
                 out, nInit, Uin, prev>>

\* IterInner updating the context in place, as a streaming hash would:
\* sha1_block(&inner, &inner, &U).
IterInnerInPlace ==
  /\ pc = "iter"
  /\ n <= iter
  /\ Uin' = sha1_output(Zeros(Size), mem["U"])
  /\ mem' = sha1_block(mem, "inner", "inner", "U")
  /\ calls' = Append(calls, "inner")
  /\ pc' = "iter2"
  /\ UNCHANGED <<password, salt, iter, keyLen, numBlocks, blk, n, dk, tpad,
                 ret, msg, pad, out, nInit, prev>>

\* lines 79-80: sha1_block(&U, &inner, &U)
IterInner ==
  /\ pc = "iter"
  /\ n <= iter
  /\ Uin' = sha1_output(Zeros(Size), mem["U"])
  /\ mem' = sha1_block(mem, "U", "inner", "U")
  /\ calls' = Append(calls, "inner")
  /\ pc' = "iter2"
  /\ UNCHANGED <<password, salt, iter, keyLen, numBlocks, blk, n, dk, tpad,
                 ret, msg, pad, out, nInit, prev>>

\* lines 82-86: tmp.h[i] ^= U.h[i] for i < 5
XorTmp(m) ==
  [m EXCEPT !["tmp"] = <<Xor32(m["tmp"][1], m["U"][1]),
                         Xor32(m["tmp"][2], m["U"][2]),
                         Xor32(m["tmp"][3], m["U"][3]),
                         Xor32(m["tmp"][4], m["U"][4]),
                         Xor32(m["tmp"][5], m["U"][5])>>
                       \o SubSeq(m["tmp"], 6, 16)]

\* lines 81-86 and n++: sha1_block(&U, &outer, &U), tmp ^= U
IterOuter ==
  /\ pc = "iter2"
  /\ mem' = XorTmp(sha1_block(mem, "U", "outer", "U"))
  /\ calls' = Append(calls, "outer")
  /\ n' = n + 1
  /\ pc' = "iter"
  /\ UNCHANGED <<password, salt, iter, keyLen, numBlocks, blk, dk, tpad, ret,
                 msg, pad, out, nInit, Uin, prev>>

\* line 88 and block++: sha1_output(T, &tmp)
BlockEnd ==
  /\ pc = "iter"
  /\ n > iter
  /\ dk' = WithT(dk, sha1_output(Tslice(dk), mem["tmp"]))
  /\ blk' = blk + 1
  /\ pc' = "block"
  /\ UNCHANGED <<password, salt, iter, keyLen, numBlocks, n, mem, tpad, ret,
                 msg, pad, out, nInit, calls, Uin, prev>>

\* line 90: return dk[:keyLen]
Return ==
  /\ pc = "block"
  /\ blk > numBlocks
  /\ IF keyLen < 0 \/ keyLen > numBlocks * Size
     THEN pc' = "panic" /\ UNCHANGED ret      \* slice bounds out of range
     ELSE pc' = "done" /\ ret' = SubSeq(dk, 1, keyLen)
  /\ UNCHANGED <<password, salt, iter, keyLen, numBlocks, blk, n, mem, dk,
                 tpad, msg, pad, out, nInit, calls, Uin, prev>>

Next == Enter \/ BlockFirst \/ IterInner \/ IterOuter \/ BlockEnd \/ Return

Spec == Init /\ [][Next]_vars

(* ------------------------- two calls of SHA1 -------------------------- *)
(* SHA1 called again with the same password, salt and iter and a larger    *)
(* keyLen; prev keeps what the first call returned.                        *)

Again ==
  /\ pc = "done"
  /\ prev = <<>>
  /\ \E k \in KeyLens : k > keyLen /\ keyLen' = k
  /\ prev' = <<keyLen, ret>>
  /\ pc' = "enter"
  /\ numBlocks' = 0
  /\ blk' = 0
  /\ n' = 0
  /\ mem' = [b \in BlockNames |-> ZeroBlock]
  /\ dk' = <<>>
  /\ tpad' = <<>>
  /\ ret' = <<>>
  /\ nInit' = 0
  /\ calls' = <<>>
  /\ Uin' = <<>>
  /\ UNCHANGED <<password, salt, iter, msg, pad, out>>

InitTwo == Init /\ iter >= 1 /\ keyLen >= 1

NextTwo ==
  Enter \/ BlockFirst \/ IterInner \/ IterOuter \/ BlockEnd \/ Return \/ Again

SpecTwo == InitTwo /\ [][NextTwo]_vars

(* ------------------------------ sha1_sum ------------------------------ *)

InitSum ==
  /\ pc = "sum"
  /\ msg \in Msgs
  /\ pad = <<>>
  /\ out = <<>>
  /\ password = <<>>
  /\ salt = <<>>
  /\ iter = 0
  /\ keyLen = 0
  /\ Locals
  /\ prev = <<>>

SumFrame ==
  UNCHANGED <<password, salt, iter, keyLen, numBlocks, blk, n, dk, tpad, ret,
              nInit, calls, Uin, prev>>

\* lines 89-96: the length check, the buffers, sha1_init(&ctx)
SumInit ==
  /\ pc = "sum"
  /\ IF Len(msg) > MaxMsg
     THEN pc' = "panic" /\ UNCHANGED <<mem, pad, out>>     \* "msg too long"
     ELSE /\ pc' = "sum_pad"
          /\ pad' = Zeros(BlockSize)
          /\ out' = Zeros(Size)
          /\ mem' = [mem EXCEPT !["ctx"] = sha1_init(mem["ctx"])]
  /\ UNCHANGED msg
  /\ SumFrame

\* lines 97-98: copy(pad, msg); sha1_pad(pad, uint(len(msg)))
SumPad ==
  /\ pc = "sum_pad"
  /\ pad' = sha1_pad(Copy(pad, msg), Len(msg))
  /\ pc' = "sum_input"
  /\ UNCHANGED <<msg, out, mem>>
  /\ SumFrame

\* line 99: sha1_input(&in, pad)
SumInput ==
  /\ pc = "sum_input"
  /\ mem' = [mem EXCEPT !["in"] = sha1_input(pad)]
  /\ pc' = "sum_block"
  /\ UNCHANGED <<msg, pad, out>>
  /\ SumFrame

\* line 100: sha1_block(&ctx, &ctx, &in)
SumBlock ==
  /\ pc = "sum_block"
  /\ mem' = sha1_block(mem, "ctx", "ctx", "in")
  /\ pc' = "sum_output"
  /\ UNCHANGED <<msg, pad, out>>
  /\ SumFrame

\* lines 101-102: sha1_output(out, &ctx); return out
SumOutput ==
  /\ pc = "sum_output"
  /\ out' = sha1_output(out, mem["ctx"])
  /\ pc' = "sum_done"
  /\ UNCHANGED <<msg, pad, mem>>
  /\ SumFrame

NextSum == SumInit \/ SumPad \/ SumInput \/ SumBlock \/ SumOutput

SpecSum == InitSum /\ [][NextSum]_vars

(* ------------------------ reference definitions ----------------------- *)

\* FIPS 198-1: H((K0 xor opad) || H((K0 xor ipad) || text)), K0 being K
\* zero-padded to a block, or H(K) zero-padded when K is longer than a block
HmacOfK0(k0, text) ==
  sha1_Sum(XorAll(k0, 92) \o sha1_Sum(XorAll(k0, 54) \o text))

HMAC_SHA1(K, text) ==
  HmacOfK0(IF Len(K) > BlockSize
           THEN sha1_Sum(K) \o Zeros(BlockSize - Size)
           ELSE K \o Zeros(BlockSize - Len(K)),
           text)

XorBytes(x, y) == Tuple([i \in 1..Len(x) |-> XorByte(x[i], y[i])])

\* RFC 2898: INT(i), the four-byte big-endian encoding of i
INT(i) == <<(i \div (2 ^ 24)) % 256, (i \div Half) % 256, (i \div 256) % 256, i % 256>>

\* U_j xor ... xor U_c xored into acc, u being U_(j-1)
RECURSIVE F_from(_, _, _, _, _)
F_next(P, u, acc, j, c) == F_from(P, u, XorBytes(acc, u), j + 1, c)

F_from(P, u, acc, j, c) ==
  IF j > c THEN acc ELSE F_next(P, HMAC_SHA1(P, u), acc, j, c)

F_start(P, u1, c) == F_from(P, u1, u1, 2, c)

\* RFC 2898: F(P, S, c, i) = U_1 xor U_2 xor ... xor U_c
F(P, S, c, i) == F_start(P, HMAC_SHA1(P, S \o INT(i)), c)

\* T_1 || ... || T_l
RECURSIVE Ts(_, _, _, _)
Ts(P, S, c, l) == IF l <= 0 THEN <<>> ELSE Ts(P, S, c, l - 1) \o F(P, S, c, l)

\* RFC 2898: DK = the first dkLen bytes of T_1 || ... || T_l, l = ceil(dkLen/20)
DK(P, S, c, dkLen) ==
  SubSeq(Ts(P, S, c, (dkLen + Size - 1) \div Size), 1, dkLen)

\* block i of d
BlockOf(d, i) == SubSeq(d, Size * (i - 1) + 1, Size * i)

(* -------------------------------- C1 ---------------------------------- *)
(* C1: for iter >= 1, every finished output block i of dk is               *)
(* U_1 xor ... xor U_iter with U_1 = HMAC-SHA1(password, salt || BE32(i))  *)
(* and U_n = HMAC-SHA1(password, U_(n-1)); for iter = 1 it is U_1.         *)

BlocksAreF(d, P, S, c, upto) ==
  \A i \in 1..upto : BlockOf(d, i) = F(P, S, c, i)

C1_BlocksAreXorChains ==
  (pc = "block" /\ iter >= 1) => BlocksAreF(dk, password, salt, iter, blk - 1)

C1_Witness ==
  /\ pc = "block"
  /\ blk >= 3
  /\ iter >= 2
  /\ BlocksAreF(dk, password, salt, iter, blk - 1)

(* -------------------------------- C2 ---------------------------------- *)
(* C2: a call with iter >= 1 and keyLen >= 1 returns, and returns exactly  *)
(* keyLen bytes: dk holds ceil(keyLen/20) blocks and the result is its     *)
(* first keyLen bytes.                                                     *)

C2_LengthContract ==
  (pc \in {"done", "panic"} /\ iter >= 1 /\ keyLen >= 1) =>
     /\ pc = "done"
     /\ Len(ret) = keyLen
     /\ numBlocks * Size >= keyLen
     /\ (numBlocks - 1) * Size < keyLen
     /\ Len(dk) = numBlocks * Size
     /\ ret = SubSeq(dk, 1, keyLen)

C2_Witness ==
  /\ pc = "done"
  /\ iter >= 1
  /\ keyLen = Size + 1
  /\ Len(ret) = keyLen
  /\ Len(dk) = 2 * Size

(* -------------------------------- C3 ---------------------------------- *)
(* C3: a call with iter <= 0 or keyLen <= 0 returns no derived key.        *)

C3_NonPositiveRejected == (iter <= 0 \/ keyLen <= 0) => pc # "done"

(* -------------------------------- C4 ---------------------------------- *)
(* C4, as claimed: a call whose salt has len(salt) + 4 > 55, its other     *)
(* arguments valid, returns no key.                                        *)

LongSalt == Len(salt) + 4 > chunk - 9

IsHmac(P, m, blockU) == sha1_output(Zeros(Size), blockU) = HMAC_SHA1(P, m)

C5_StatesGiveHmac ==
  (pc = "iter" /\ Len(calls) > 1) => IsHmac(password, Uin, mem["U"])

C5_Witness ==
  /\ pc = "iter"
  /\ Len(calls) > 1
  /\ Len(password) > BlockSize
  /\ IsHmac(password, Uin, mem["U"])

(* -------------------------------- C6 ---------------------------------- *)
(* C6: for a message of 0..55 bytes sha1_sum returns its SHA-1 digest as   *)
(* the 80-word schedule defines it, and the block it hashes is the message,*)
(* 0x80, zeros up to byte 55 and the bit length in bytes 56..63.           *)

PadOK(p, m) ==
  /\ SubSeq(p, 1, Len(m)) = m
  /\ p[Len(m) + 1] = 128
  /\ \A i \in (Len(m) + 2)..56 : p[i] = 0
  /\ SubSeq(p, 57, 64) =
       <<0, 0, 0, 0, 0, 0, (Len(m) * 8) \div 256, (Len(m) * 8) % 256>>

C6_SumIsSha1 ==
  /\ (pc \in {"sum_input", "sum_block", "sum_output", "sum_done"}) => PadOK(pad, msg)
  /\ (pc = "sum_done") => out = sha1_Sum(msg)

C6_Witness ==
  /\ pc = "sum_done"
  /\ Len(msg) = MaxMsg
  /\ out = sha1_Sum(msg)

(* -------------------------------- C7 ---------------------------------- *)
(* C7: for k < k', the first 20*floor(k/20) bytes of the keys of length k  *)
(* and k' are the same, and for k' <= 20 the shorter key is a prefix of    *)
(* the longer.                                                             *)

StablePrefix(k, r, k2, r2) ==
  /\ SubSeq(r, 1, Size * (k \div Size)) = SubSeq(r2, 1, Size * (k \div Size))
  /\ (k2 <= Size) => r = SubSeq(r2, 1, k)

C7_PrefixStable ==
  (pc = "done" /\ prev # <<>>) => StablePrefix(prev[1], prev[2], keyLen, ret)

C7_Witness ==
  /\ pc = "done"
  /\ prev # <<>>
  /\ prev[1] = Size
  /\ keyLen > Size
  /\ iter >= 2
  /\ prev[2] = SubSeq(ret, 1, Size)

(* -------------------------------- C8 ---------------------------------- *)
(* C8: hmac_init runs once, before the first output block; in every block  *)
(* the loop calls sha1_block alternately with inner and with outer, inner  *)
(* first, 2*(iter-1) calls in all when iter >= 1.                          *)

RECURSIVE Pairs(_)
Pairs(k) == IF k <= 0 THEN <<>> ELSE Pairs(k - 1) \o <<"inner", "outer">>

C8_CallPattern ==
  /\ (pc = "enter") => nInit = 0
  /\ (pc # "enter") => nInit = 1
  /\ (pc = "iter") => calls = <<"pad">> \o Pairs(n - 2)
  /\ (pc = "iter2") => calls = <<"pad">> \o Pairs(n - 2) \o <<"inner">>
  /\ (pc = "iter" /\ n > iter /\ iter >= 1) => Len(calls) - 1 = 2 * (iter - 1)

C8_Witness ==
  /\ pc = "iter"
  /\ n > iter
  /\ iter >= 3
  /\ blk >= 2
  /\ nInit = 1
  /\ Len(calls) - 1 = 2 * (iter - 1)

(* -------------------------------- C9 ---------------------------------- *)
(* C9: once hmac_init has returned, no step of SHA1 changes words 0..4 of  *)
(* inner or of outer.                                                      *)

C9_ContextImmutable ==
  [][pc # "enter" =>
       /\ SubSeq(mem'["inner"], 1, 5) = SubSeq(mem["inner"], 1, 5)
       /\ SubSeq(mem'["outer"], 1, 5) = SubSeq(mem["outer"], 1, 5)]_vars

C9_Witness ==
  /\ pc = "iter"
  /\ blk >= 2
  /\ Len(calls) >= 3
  /\ mem["inner"] # ZeroBlock
  /\ mem["outer"] # ZeroBlock

(* -------------------------------- C10 --------------------------------- *)
(* C10: throughout the loop words 5..15 of U are the padding of an 84-byte *)
(* message (0x80000000, nine zero words, 672), and sha1_pad has run once   *)
(* for the block.                                                          *)

PadWords ==
  <<<<2 ^ 15, 0>>>> \o [i \in 1..9 |-> <<0, 0>>] \o <<<<0, (BlockSize + Size) * 8>>>>

C10_PaddingKept ==
  (pc \in {"iter", "iter2"}) =>
     /\ SubSeq(mem["U"], 6, 16) = PadWords
     /\ Cardinality({i \in DOMAIN calls : calls[i] = "pad"}) = 1

C10_Witness ==
  /\ pc = "iter2"
  /\ n >= 3
  /\ SubSeq(mem["U"], 6, 16) = PadWords

====
